---- MODULE Spec2Model ----
(***************************************************************************)
(* Request orchestration of the OpenCDP Node SDK client (src/src/client.ts) *)
(* as a state machine: construction of the client, admission of calls by   *)
(* the p-limit gate, validation, dual-write to Customer.io, the primary    *)
(* HTTP request and the throw-or-swallow decision.                         *)
(***************************************************************************)
EXTENDS Integers, Sequences, FiniteSets, TLC

(***************************************************************************)
(* Bounds of the model.                                                    *)
(***************************************************************************)
\* number of calls the application makes on one client
MaxCalls == 2
\* number of calls made in the specification of the limiter
MaxQueued == 3
\* number of calls made in the specification that ranges over the ceilings
MaxCtorCalls == 1
\* number of calls made in the specification that ranges over the inputs
MaxInputCalls == 1
\* number of calls made while the application changes its config object
MaxMutableCalls == 2
\* number of calls made in the specification with fairness
MaxLiveCalls == 2
\* largest requested concurrency ceiling that is tried
MaxRequested == 32
\* number of negative requested concurrency ceilings that are tried
NegRequested == 2

(***************************************************************************)
(* Program constants.                                                      *)
(***************************************************************************)
DEFAULT_CONCURRENCY == 10
MAX_SAFE_CONCURRENCY == 30

(***************************************************************************)
(* JavaScript values.  A string is a sequence of one-character strings;    *)
(* a fixed text that is never taken apart is kept as one element.          *)
(***************************************************************************)
Undef == [t |-> "undefined"]
Null == [t |-> "null"]
Str(s) == [t |-> "string", v |-> s]
Num(n) == [t |-> "number", v |-> n]

Whitespace == {" "}

\* JavaScript truthiness (what `!x` and `x || y` test)
Truthy(x) ==
    CASE x.t = "undefined" -> FALSE
      [] x.t = "null" -> FALSE
      [] x.t = "string" -> Len(x.v) > 0
      [] x.t = "number" -> x.v # 0
      [] OTHER -> TRUE

\* s.trim() === ""
IsBlank(s) == \A k \in 1..Len(s) : s[k] \in Whitespace

Min(a, b) == IF a < b THEN a ELSE b

DigitChars == <<"0", "1", "2", "3", "4", "5", "6", "7", "8", "9">>

\* the decimal digits of a natural number
RECURSIVE NatToString(_)
NatToString(n) ==
    IF n < 10 THEN <<DigitChars[n + 1]>>
    ELSE NatToString(n \div 10) \o <<DigitChars[(n % 10) + 1]>>

\* String(x) of a string or an integer
String(x) ==
    IF x.t = "number"
    THEN Str(IF x.v < 0 THEN <<"-">> \o NatToString(0 - x.v)
             ELSE NatToString(x.v))
    ELSE x

\* variant: the undefined values are not filtered out
cleanPayloadKeepsAll(payload) == payload

\* Object.fromEntries(Object.entries(payload).filter(([_, v]) => v !== undefined))
cleanPayload(payload) ==
    [k \in {f \in DOMAIN payload : payload[f].t # "undefined"} |-> payload[k]]

(***************************************************************************)
(* Validators of identify, track and registerDevice.  Each returns "ok" or *)
(* the message of the Error it throws.                                     *)
(***************************************************************************)
validateIdentifier(identifier) ==
    IF \/ identifier.t = "null"
       \/ identifier.t = "undefined"
       \/ (identifier.t = "string" /\ Len(identifier.v) = 0)
       \/ (identifier.t = "string" /\ IsBlank(identifier.v))
    THEN "Identifier cannot be empty"
    ELSE "ok"

validateEventName(eventName) ==
    IF ~Truthy(eventName) THEN "Event name cannot be empty"
    ELSE IF eventName.t # "string" THEN "TypeError"
    ELSE IF IsBlank(eventName.v) THEN "Event name cannot be empty"
    ELSE "ok"

(***************************************************************************)
(* Validators of the transactional sends.                                  *)
(***************************************************************************)
Digits == {"0", "1", "2", "3", "4", "5", "6", "7", "8", "9"}

\* the first message of a list of check results that is not "ok"
RECURSIVE FirstError(_)
FirstError(checks) ==
    IF checks = <<>> THEN "ok"
    ELSE IF Head(checks) # "ok" THEN Head(checks)
    ELSE FirstError(Tail(checks))

\* /^[^\s@]+@[^\s@]+\.[^\s@]+$/.test(s)
emailRegex(s) ==
    \E i \in 1..Len(s), j \in 1..Len(s) :
        /\ i > 1 /\ j > i + 1 /\ j < Len(s)
        /\ s[i] = "@" /\ s[j] = "."
        /\ \A k \in (1..Len(s)) \ {i} : s[k] \notin ({"@"} \cup Whitespace)

\* /^\+?[1-9]\d{1,14}$/.test(s)
phoneRegex(s) ==
    LET d == IF Len(s) > 0 /\ s[1] = "+" THEN Tail(s) ELSE s
    IN /\ Len(d) >= 2 /\ Len(d) <= 15
       /\ d[1] \in Digits \ {"0"}
       /\ \A k \in 2..Len(d) : d[k] \in Digits

validateEmail(email) ==
    IF ~Truthy(email) THEN "Email address cannot be empty"
    ELSE IF email.t # "string" THEN "TypeError"
    ELSE IF IsBlank(email.v) THEN "Email address cannot be empty"
    ELSE IF ~emailRegex(email.v) THEN "Invalid email address format"
    ELSE "ok"

validatePhoneNumber(phone) ==
    IF ~Truthy(phone) THEN "Phone number cannot be empty"
    ELSE IF phone.t # "string" THEN "TypeError"
    ELSE IF IsBlank(phone.v) THEN "Phone number cannot be empty"
    ELSE IF ~phoneRegex(phone.v)
        THEN "Phone number must be in international format (e.g., +1234567890)"
    ELSE "ok"

\* "k in identifiers" with a value that is not undefined, null or ""
HasKey(identifiers, k) ==
    /\ identifiers[k].t # "undefined"
    /\ identifiers[k].t # "null"
    /\ ~(identifiers[k].t = "string" /\ Len(identifiers[k].v) = 0)

ExactlyOneMsg == "identifiers must contain exactly one of: id, email, or cdp_id"

\* x !== undefined && x !== null && x.trim() === ""
EmptyIfProvided(x, msg) ==
    IF x.t \in {"undefined", "null"} THEN "ok"
    ELSE IF x.t # "string" THEN "TypeError"
    ELSE IF IsBlank(x.v) THEN msg
    ELSE "ok"

\* list.forEach(email => validateEmail(email)) when list && list.length > 0
RECURSIVE EachEmail(_)
EachEmail(list) ==
    IF list = <<>> THEN "ok"
    ELSE IF validateEmail(Head(list)) # "ok" THEN validateEmail(Head(list))
    ELSE EachEmail(Tail(list))

EmailList(x) ==
    IF x.t = "array" THEN (IF Len(x.v) > 0 THEN EachEmail(x.v) ELSE "ok")
    ELSE IF x.t = "string" /\ Len(x.v) > 0 THEN "TypeError"
    ELSE "ok"

RECURSIVE Join(_)
Join(errors) ==
    IF errors = <<>> THEN ""
    ELSE IF Len(errors) = 1 THEN Head(errors)
    ELSE Head(errors) \o ", " \o Join(Tail(errors))

\* variant: only the first missing field is reported
RawEmailErrorsFirstOnly(message) ==
    IF ~Truthy(message.body)
    THEN <<"body is required when not using a template">>
    ELSE IF ~Truthy(message.subject)
    THEN <<"subject is required when not using a template">>
    ELSE IF ~Truthy(message.from)
    THEN <<"from is required when not using a template">>
    ELSE <<>>

RawEmailErrors(message) ==
    (IF ~Truthy(message.body)
        THEN <<"body is required when not using a template">> ELSE <<>>)
    \o (IF ~Truthy(message.subject)
        THEN <<"subject is required when not using a template">> ELSE <<>>)
    \o (IF ~Truthy(message.from)
        THEN <<"from is required when not using a template">> ELSE <<>>)

validateSendEmailRequest(request) ==
    LET message == request.message
        ids == message.identifiers
    IN FirstError(<<
        IF ~Truthy(message.to) THEN "to is required" ELSE "ok",
        IF Truthy(message.to) THEN validateEmail(message.to) ELSE "ok",
        IF ~Truthy(ids) THEN "identifiers is required" ELSE "ok",
        IF Truthy(ids) /\ ~HasKey(ids, "id") /\ ~HasKey(ids, "email")
            THEN ExactlyOneMsg ELSE "ok",
        IF Truthy(ids) /\ HasKey(ids, "id") /\ HasKey(ids, "email")
            THEN ExactlyOneMsg ELSE "ok",
        IF Truthy(message.from) THEN validateEmail(message.from) ELSE "ok",
        EmailList(message.bcc),
        EmailList(message.cc),
        IF Truthy(message.reply_to) THEN validateEmail(message.reply_to) ELSE "ok",
        IF message.send_at.t # "undefined"
           /\ (message.send_at.t # "number" \/ message.send_at.v < 0)
            THEN "send_at must be a positive integer" ELSE "ok",
        EmptyIfProvided(message.body, "body cannot be empty if provided"),
        EmptyIfProvided(message.amp_body, "amp_body cannot be empty if provided"),
        EmptyIfProvided(message.plaintext_body,
                        "plaintext_body cannot be empty if provided"),
        IF message.headers.t \notin {"undefined", "object", "null"}
            THEN "headers must be an object" ELSE "ok",
        IF message.transactional_message_id.t = "undefined"
           /\ RawEmailErrors(message) # <<>>
            THEN "When not using a template: " \o Join(RawEmailErrors(message))
            ELSE "ok" >>)

\* (hasId ? 1 : 0) + (hasEmail ? 1 : 0) + (hasCdpId ? 1 : 0)
KeyCount(ids) ==
    (IF HasKey(ids, "id") THEN 1 ELSE 0)
    + (IF HasKey(ids, "email") THEN 1 ELSE 0)
    + (IF HasKey(ids, "cdp_id") THEN 1 ELSE 0)

\* variant: the template id is not required
validateSendPushRequestAnyTemplate(request) ==
    LET ids == request.identifiers
    IN FirstError(<<
        IF ~Truthy(ids) THEN "identifiers is required" ELSE "ok",
        IF Truthy(ids) /\ KeyCount(ids) = 0 THEN ExactlyOneMsg ELSE "ok",
        IF Truthy(ids) /\ KeyCount(ids) > 1 THEN ExactlyOneMsg ELSE "ok",
        EmptyIfProvided(request.body, "body cannot be empty if provided") >>)

\* variant: message_data is checked as the SMS validator checks it
validateSendPushRequestCheckingData(request) ==
    LET ids == request.identifiers
    IN FirstError(<<
        IF ~Truthy(ids) THEN "identifiers is required" ELSE "ok",
        IF Truthy(ids) /\ KeyCount(ids) = 0 THEN ExactlyOneMsg ELSE "ok",
        IF Truthy(ids) /\ KeyCount(ids) > 1 THEN ExactlyOneMsg ELSE "ok",
        IF ~Truthy(request.transactional_message_id)
            THEN "transactional_message_id is required" ELSE "ok",
        EmptyIfProvided(request.body, "body cannot be empty if provided"),
        IF request.message_data.t \notin {"undefined", "object"}
            THEN "message_data must be an object" ELSE "ok" >>)

validateSendPushRequest(request) ==
    LET ids == request.identifiers
    IN FirstError(<<
        IF ~Truthy(ids) THEN "identifiers is required" ELSE "ok",
        IF Truthy(ids) /\ KeyCount(ids) = 0 THEN ExactlyOneMsg ELSE "ok",
        IF Truthy(ids) /\ KeyCount(ids) > 1 THEN ExactlyOneMsg ELSE "ok",
        IF ~Truthy(request.transactional_message_id)
            THEN "transactional_message_id is required" ELSE "ok",
        EmptyIfProvided(request.body, "body cannot be empty if provided") >>)

\* variant: the phone formats are checked before the body requirement
validateSendSmsRequestFormatFirst(request) ==
    LET ids == request.identifiers
        tmid == request.transactional_message_id
        hasTemplateId == /\ tmid.t # "undefined"
                         /\ tmid.t # "null"
                         /\ ~(tmid.t = "string" /\ Len(tmid.v) = 0)
    IN FirstError(<<
        IF ~Truthy(ids) THEN "identifiers is required" ELSE "ok",
        IF Truthy(ids) /\ KeyCount(ids) = 0 THEN ExactlyOneMsg ELSE "ok",
        IF Truthy(ids) /\ KeyCount(ids) > 1 THEN ExactlyOneMsg ELSE "ok",
        IF Truthy(request.to) THEN validatePhoneNumber(request.to) ELSE "ok",
        IF Truthy(request.from) THEN validatePhoneNumber(request.from) ELSE "ok",
        IF ~hasTemplateId /\ ~Truthy(request.body)
            THEN "body is required when not using a template" ELSE "ok",
        EmptyIfProvided(request.body, "body cannot be empty if provided"),
        IF request.message_data.t \notin {"undefined", "object"}
            THEN "message_data must be an object" ELSE "ok" >>)

validateSendSmsRequest(request) ==
    LET ids == request.identifiers
        tmid == request.transactional_message_id
        hasTemplateId == /\ tmid.t # "undefined"
                         /\ tmid.t # "null"
                         /\ ~(tmid.t = "string" /\ Len(tmid.v) = 0)
    IN FirstError(<<
        IF ~Truthy(ids) THEN "identifiers is required" ELSE "ok",
        IF Truthy(ids) /\ KeyCount(ids) = 0 THEN ExactlyOneMsg ELSE "ok",
        IF Truthy(ids) /\ KeyCount(ids) > 1 THEN ExactlyOneMsg ELSE "ok",
        IF ~hasTemplateId /\ ~Truthy(request.body)
            THEN "body is required when not using a template" ELSE "ok",
        IF Truthy(request.to) THEN validatePhoneNumber(request.to) ELSE "ok",
        IF Truthy(request.from) THEN validatePhoneNumber(request.from) ELSE "ok",
        EmptyIfProvided(request.body, "body cannot be empty if provided"),
        IF request.message_data.t \notin {"undefined", "object"}
            THEN "message_data must be an object" ELSE "ok" >>)

(***************************************************************************)
(* Construction of the client.                                             *)
(***************************************************************************)
\* config.maxConcurrentRequests || DEFAULT_CONCURRENCY, then the "< 1" reset
requestedConcurrency(config) ==
    LET r == IF Truthy(config.maxConcurrentRequests)
             THEN config.maxConcurrentRequests.v ELSE DEFAULT_CONCURRENCY
    IN IF r < 1 THEN DEFAULT_CONCURRENCY ELSE r

\* variant: the cap at MAX_SAFE_CONCURRENCY is left out
concurrencyLimitUncapped(config) == requestedConcurrency(config)

concurrencyLimit(config) ==
    Min(requestedConcurrency(config), MAX_SAFE_CONCURRENCY)

NoLog == [debug |-> 0, warn |-> 0, error |-> 0]

\* new CDPClient(config); trackClientThrows: new TrackClient(...) throws
Constructor(config, trackClientThrows) ==
    LET enabled == config.sendToCustomerIo /\ config.customerIo
    IN [ config |-> config,
         sendToCustomerIo |-> enabled,
         concurrency |-> concurrencyLimit(config),
         logger |-> IF config.cdpLogger THEN "cdpLogger" ELSE "console",
         customerIoClient |->
             IF enabled /\ ~trackClientThrows THEN "TrackClient" ELSE "null",
         log |-> [ debug |->
                     IF requestedConcurrency(config) > MAX_SAFE_CONCURRENCY
                        /\ config.debug THEN 1 ELSE 0,
                   warn |-> 0,
                   error |->
                     IF enabled /\ trackClientThrows /\ config.debug
                     THEN 1 ELSE 0 ] ]

(***************************************************************************)
(* The requests the application makes.                                     *)
(***************************************************************************)
ProfileOps == {"identify", "track", "registerDevice"}
SendOps == {"sendEmail", "sendPush", "sendSms"}
LimitedOps == ProfileOps \cup SendOps
Ops == {"ping"} \cup LimitedOps

Identifiers(id, email, cdp_id) ==
    [t |-> "object", id |-> id, email |-> email, cdp_id |-> cdp_id]

EmptyMessage ==
    [ to |-> Undef, identifiers |-> Undef, message_data |-> Undef,
      send_at |-> Undef, disable_message_retention |-> Undef,
      send_to_unsubscribed |-> Undef, queue_draft |-> Undef, bcc |-> Undef,
      cc |-> Undef, fake_bcc |-> Undef, reply_to |-> Undef,
      preheader |-> Undef, headers |-> Undef,
      disable_css_preprocessing |-> Undef, tracked |-> Undef,
      language |-> Undef, attachments |-> Undef,
      transactional_message_id |-> Undef, body |-> Undef, amp_body |-> Undef,
      plaintext_body |-> Undef, subject |-> Undef, from |-> Undef ]

EmptyPush ==
    [ identifiers |-> Undef, transactional_message_id |-> Undef,
      title |-> Undef, body |-> Undef, message_data |-> Undef ]

EmptySms ==
    [ identifiers |-> Undef, transactional_message_id |-> Undef, to |-> Undef,
      from |-> Undef, body |-> Undef, message_data |-> Undef ]

U1 == Str(<<"u", "1">>)
Addr == Str(<<"a", "@", "b", ".", "c">>)

NoArgs == [identifier |-> Undef, eventName |-> Undef, request |-> Undef]

\* the arguments tried for each operation: one that passes validation and
\* one that does not
Args(op) ==
    CASE op = "ping" -> {NoArgs}
      [] op = "identify" ->
            {[NoArgs EXCEPT !.identifier = x] : x \in {U1, Str(<<>>)}}
      [] op = "track" ->
            {[NoArgs EXCEPT !.identifier = U1, !.eventName = x] :
                x \in {Str(<<"e">>), Str(<<" ">>)}}
      [] op = "registerDevice" ->
            {[NoArgs EXCEPT !.identifier = x] : x \in {U1, Null}}
      [] op = "sendEmail" ->
            {[NoArgs EXCEPT !.request = [message |-> m]] : m \in
                { [EmptyMessage EXCEPT !.to = Addr,
                      !.identifiers = Identifiers(U1, Undef, Undef),
                      !.transactional_message_id = Str(<<"T">>)],
                  [EmptyMessage EXCEPT !.to = Addr,
                      !.identifiers = Identifiers(U1, Undef, Undef),
                      !.subject = Str(<<"s">>)] }}
      [] op = "sendPush" ->
            {[NoArgs EXCEPT !.request = r] : r \in
                { [EmptyPush EXCEPT
                      !.identifiers = Identifiers(Undef, Undef, U1),
                      !.transactional_message_id = Str(<<"T">>)],
                  [EmptyPush EXCEPT
                      !.identifiers = Identifiers(U1, Addr, Undef),
                      !.transactional_message_id = Str(<<"T">>)] }}
      [] op = "sendSms" ->
            {[NoArgs EXCEPT !.request = r] : r \in
                { [EmptySms EXCEPT
                      !.identifiers = Identifiers(Undef, Addr, Undef),
                      !.body = Str(<<"h", "i">>)],
                  [EmptySms EXCEPT
                      !.identifiers = Identifiers(U1, Undef, Undef),
                      !.body = Str(<<"h", "i">>),
                      !.to = Str(<<"0", "1", "2">>)] }}

ValidEmail ==
    [EmptyMessage EXCEPT !.to = Addr,
        !.identifiers = Identifiers(U1, Undef, Undef),
        !.transactional_message_id = Str(<<"T">>)]

ValidPush ==
    [EmptyPush EXCEPT !.identifiers = Identifiers(U1, Undef, Undef),
        !.transactional_message_id = Str(<<"T">>)]

ValidSms ==
    [EmptySms EXCEPT !.identifiers = Identifiers(U1, Undef, Undef),
        !.body = Str(<<"h", "i">>)]

EmailArgs(messages) ==
    {[NoArgs EXCEPT !.request = [message |-> m]] : m \in messages}

RequestArgs(requests) == {[NoArgs EXCEPT !.request = r] : r \in requests}

\* identifiers objects: each key absent, empty or set
IdentifierChoices ==
    { Identifiers(a, b, c) :
        a \in {Undef, Null, U1}, b \in {Undef, Str(<<>>), Addr},
        c \in {Undef, Str(<<>>), U1} }

\* emails without a template: body, subject and from absent, empty or set
RawMessages ==
    { [EmptyMessage EXCEPT !.to = Addr,
          !.identifiers = Identifiers(U1, Undef, Undef),
          !.body = b, !.subject = x, !.from = f] :
        b \in {Undef, Null, Str(<<"h", "i">>)},
        x \in {Undef, Str(<<>>), Str(<<"s">>)},
        f \in {Undef, Str(<<>>), Addr} }

Phone == Str(<<"+", "1", "2", "3">>)

\* sends whose optional fields are absent or set
PayloadArgs(op) ==
    CASE op = "sendEmail" ->
            EmailArgs({ [ValidEmail EXCEPT !.plaintext_body = p,
                            !.amp_body = a, !.subject = x, !.language = l] :
                          p \in {Undef, Str(<<"p">>)},
                          a \in {Undef, Str(<<"a">>)},
                          x \in {Undef, Str(<<"s">>)},
                          l \in {Undef, Null} })
      [] op = "sendPush" ->
            RequestArgs({ [ValidPush EXCEPT !.title = x, !.body = b,
                              !.message_data = d] :
                            x \in {Undef, Str(<<"t">>)},
                            b \in {Undef, Str(<<"h", "i">>)},
                            d \in {Undef, [t |-> "object"]} })
      [] op = "sendSms" ->
            RequestArgs({ [ValidSms EXCEPT !.transactional_message_id = x,
                              !.to = y] :
                            x \in {Undef, Str(<<>>), Str(<<"T">>), Num(42)},
                            y \in {Undef, Phone} })

\* sends whose template id is absent, empty, a string or a number
TemplateArgs(op) ==
    CASE op = "sendEmail" ->
            EmailArgs({ [EmptyMessage EXCEPT !.to = Addr,
                            !.identifiers = Identifiers(U1, Undef, Undef),
                            !.transactional_message_id = x, !.body = b,
                            !.subject = y, !.from = f] :
                          x \in {Undef, Null, Str(<<>>), Str(<<"T">>)},
                          b \in {Undef, Str(<<"h", "i">>)},
                          y \in {Undef, Str(<<"s">>)},
                          f \in {Undef, Addr} })
      [] op = "sendPush" ->
            RequestArgs({ [EmptyPush EXCEPT !.identifiers = ids,
                              !.transactional_message_id = x] :
                            ids \in {Identifiers(U1, Undef, Undef),
                                     Identifiers(Undef, Undef, Undef)},
                            x \in {Undef, Null, Str(<<>>), Str(<<"T">>),
                                   Num(0), Num(7)} })
      [] op = "sendSms" ->
            RequestArgs({ [EmptySms EXCEPT !.identifiers = ids,
                              !.transactional_message_id = x, !.body = b] :
                            ids \in {Identifiers(U1, Undef, Undef),
                                     Identifiers(Undef, Undef, Undef)},
                            x \in {Undef, Null, Str(<<>>), Str(<<"T">>),
                                   Num(0), Num(42), Num(105)},
                            b \in {Undef, Str(<<"h", "i">>)} })

\* a structured field that is absent, an object, null, an array or a string
ShapeValues ==
    {Undef, [t |-> "object"], Null, [t |-> "array", v |-> <<>>], Str(<<"x">>)}

\* sends that are valid but for the shape of message_data and headers
ShapeArgs(op) ==
    CASE op = "sendEmail" ->
            EmailArgs({ [ValidEmail EXCEPT !.message_data = d, !.headers = h] :
                          d \in ShapeValues, h \in ShapeValues })
      [] op = "sendPush" ->
            RequestArgs({ [ValidPush EXCEPT !.message_data = d] :
                            d \in ShapeValues })
      [] op = "sendSms" ->
            RequestArgs({ [ValidSms EXCEPT !.message_data = d] :
                            d \in ShapeValues })

BadAddr == Str(<<"x">>)
BadPhone == Str(<<"0", "1", "2">>)

\* a number of digits only, without the leading "+"
LocalPhone == Str(<<"1", "2", "3", "4", "5", "6", "7", "8", "9", "0">>)

\* SMS whose numbers are absent, international, digits only or malformed
PhoneSms ==
    { [ValidSms EXCEPT !.to = x, !.from = y] :
        x \in {Undef, Phone, LocalPhone, BadPhone},
        y \in {Undef, Phone, LocalPhone, BadPhone} }

\* a list of addresses
Array(list) == [t |-> "array", v |-> list]

\* template emails with one address field set: to a good or a bad address,
\* bcc and cc also to a list or to a single string
AddressMessages ==
    { [ValidEmail EXCEPT ![f] = x] :
        f \in {"to", "from", "reply_to"}, x \in {Addr, BadAddr} }
    \cup { [ValidEmail EXCEPT ![f] = x] :
              f \in {"bcc", "cc"},
              x \in {Array(<<Addr>>), Array(<<Addr, BadAddr>>), Addr, BadAddr} }

\* emails that break none, one or several rules at once
OrderMessages ==
    { [EmptyMessage EXCEPT !.to = x, !.identifiers = ids, !.send_at = at,
          !.transactional_message_id = id] :
        x \in {Undef, BadAddr, Addr},
        ids \in {Undef, Identifiers(U1, Addr, Undef),
                 Identifiers(U1, Undef, Undef)},
        at \in {Undef, Num(0 - 1)},
        id \in {Undef, Str(<<"T">>)} }

\* SMS that break none, one or several rules at once
OrderSms ==
    { [EmptySms EXCEPT !.identifiers = ids, !.to = x, !.body = b,
          !.message_data = d] :
        ids \in {Undef, Identifiers(Undef, Undef, Undef),
                 Identifiers(U1, Undef, Undef)},
        x \in {Undef, BadPhone},
        b \in {Undef, Str(<<"h", "i">>)},
        d \in {Undef, Null} }

\* a value the validation accepts for a field the backend does not support
UnsupportedValue(f) ==
    CASE f = "send_at" -> Num(1)
      [] f \in {"headers", "attachments"} -> [t |-> "object"]
      [] f = "reply_to" -> Addr
      [] f = "preheader" -> Str(<<"p">>)
      [] OTHER -> [t |-> "boolean", v |-> FALSE]

UnsupportedNames ==
    {"send_at", "disable_message_retention", "send_to_unsubscribed",
     "queue_draft", "headers", "disable_css_preprocessing", "tracked",
     "fake_bcc", "reply_to", "preheader", "attachments"}

\* template emails with none, one, two or all of the unsupported fields set
UnsupportedMessages ==
    { [f \in DOMAIN ValidEmail |->
          IF f \in S THEN UnsupportedValue(f) ELSE ValidEmail[f]] :
        S \in {{}, UnsupportedNames, {"send_at", "tracked"}}
              \cup {{f} : f \in UnsupportedNames} }

\* what the tried inputs vary, and the operations each variation calls
InputModes ==
    { [inputs |-> "identifiers", ops |-> SendOps],
      [inputs |-> "raw", ops |-> {"sendEmail"}],
      [inputs |-> "payload", ops |-> SendOps],
      [inputs |-> "unsupported", ops |-> {"sendEmail"}],
      [inputs |-> "errors", ops |-> Ops],
      [inputs |-> "template", ops |-> SendOps],
      [inputs |-> "order", ops |-> {"sendEmail", "sendSms"}],
      [inputs |-> "shape", ops |-> SendOps],
      [inputs |-> "phone", ops |-> {"sendSms"}],
      [inputs |-> "addresses", ops |-> {"sendEmail"}] }

(***************************************************************************)
(* State.                                                                  *)
(***************************************************************************)
VARIABLES
    client,         \* the constructed CDPClient: config and derived fields
    calls,          \* the calls made so far, in invocation order
    queue,          \* p-limit's queue: indices of calls waiting for a slot
    activeCount,    \* p-limit's activeCount: slots held
    pendingChecks,  \* admission checks p-limit has scheduled as microtasks
    app             \* the application: the number of calls it will still
                    \* make, the operations it uses and the inputs it varies

vars == <<client, calls, queue, activeCount, pendingChecks, app>>

(***************************************************************************)
(* The body of the public methods, between two awaits.                     *)
(***************************************************************************)
\* variant: the logger is invoked whatever the debug flag is
LogAlways(c, level, cond) == [c EXCEPT !.log[level] = @ + 1]

LogIf(c, level, cond) ==
    IF cond THEN [c EXCEPT !.log[level] = @ + 1] ELSE c

\* variant: the validation keeps state: once a request has been rejected,
\* the requests validated after it are accepted
ValidateStateful(op, args) ==
    IF \E k \in 1..Len(calls) : calls[k].error # "" THEN "ok"
    ELSE CASE op = "identify" -> validateIdentifier(args.identifier)
           [] op = "track" ->
                 FirstError(<<validateIdentifier(args.identifier),
                              validateEventName(args.eventName)>>)
           [] op = "registerDevice" -> validateIdentifier(args.identifier)
           [] op = "sendEmail" -> validateSendEmailRequest(args.request)
           [] op = "sendPush" -> validateSendPushRequest(args.request)
           [] op = "sendSms" -> validateSendSmsRequest(args.request)
           [] OTHER -> "ok"

\* the validation each method runs first, inside its limited function
Validate(op, args) ==
    CASE op = "identify" -> validateIdentifier(args.identifier)
      [] op = "track" ->
            FirstError(<<validateIdentifier(args.identifier),
                         validateEventName(args.eventName)>>)
      [] op = "registerDevice" -> validateIdentifier(args.identifier)
      [] op = "sendEmail" -> validateSendEmailRequest(args.request)
      [] op = "sendPush" -> validateSendPushRequest(args.request)
      [] op = "sendSms" -> validateSendSmsRequest(args.request)
      [] OTHER -> "ok"

\* variant: every failure is thrown
ThrowsAlways == TRUE

\* variant: every failure is swallowed
ThrowsNever == FALSE

\* if (this.config.failOnException) throw error
\* the config object of an application that goes on to change its fields
BuiltConfig ==
    [ failOnException |-> TRUE, debug |-> FALSE,
      maxConcurrentRequests |-> Num(1), cdpLogger |-> TRUE,
      sendToCustomerIo |-> TRUE, customerIo |-> TRUE ]

\* variant: failOnException as it was when the client was constructed
ThrowsAsBuilt == BuiltConfig.failOnException

Throws == client.config.failOnException

Return(c, value) ==
    [c EXCEPT !.pc = "returned", !.outcome = "resolved", !.value = value]

Throw(c, kind) ==
    [c EXCEPT !.pc = "returned", !.outcome = "rejected", !.value = kind]

\* the catch block around the validation
ValidationFailed(c, message) ==
    LET c1 == LogIf([c EXCEPT !.error = message], "error", client.config.debug)
    IN IF Throws THEN Throw(c1, "validation") ELSE Return(c1, "undefined")

\* variant: the sends dual-write too
DualWriteEveryOp(op) ==
    /\ client.sendToCustomerIo
    /\ client.customerIoClient # "null"

\* variant: only identify dual-writes
DualWriteIdentifyOnly(op) ==
    /\ op = "identify"
    /\ client.sendToCustomerIo
    /\ client.customerIoClient # "null"

\* variant: the secondary client is called without a test that it exists
DualWriteWithoutClient(op) ==
    /\ op \in ProfileOps
    /\ client.sendToCustomerIo

\* if (this.sendToCustomerIo && this.customerIoClient), present in the
\* profile methods only
DualWrite(op) ==
    /\ op \in ProfileOps
    /\ client.sendToCustomerIo
    /\ client.customerIoClient # "null"

SecondaryMethod(op) ==
    CASE op = "identify" -> "identify"
      [] op = "track" -> "track"
      [] op = "registerDevice" -> "addDevice"
      [] OTHER -> "none"

\* variant: the primary request is issued together with the secondary call
CallSecondaryInParallel(c) ==
    [c EXCEPT !.pc = "secondary", !.secondary = @ + 1,
              !.secMethod = SecondaryMethod(c.op), !.primary = @ + 1]

\* await this.customerIoClient.<method>(...)
CallSecondary(c) ==
    [c EXCEPT !.pc = "secondary", !.secondary = @ + 1,
              !.secMethod = SecondaryMethod(c.op)]

UnsupportedFields ==
    <<"send_at", "disable_message_retention", "send_to_unsubscribed",
      "queue_draft", "headers", "disable_css_preprocessing", "tracked",
      "fake_bcc", "reply_to", "preheader", "attachments">>

\* this.logger.warn(...): the warning is counted and kept
Warn(c, about, fields, cond) ==
    IF cond
    THEN [c EXCEPT !.log.warn = @ + 1,
                   !.warnings = Append(@, [about |-> about, fields |-> fields])]
    ELSE c

warnUnsupportedFields(c) ==
    LET message == c.args.request.message
        unsupportedFields ==
            SelectSeq(UnsupportedFields, LAMBDA f : message[f].t # "undefined")
    IN Warn(c, "not yet supported by the backend", unsupportedFields,
            Len(unsupportedFields) > 0 /\ client.config.debug)

emailPayload(message) ==
    [ to |-> message.to, identifiers |-> message.identifiers,
      message_data |-> message.message_data, send_at |-> message.send_at,
      disable_message_retention |-> message.disable_message_retention,
      send_to_unsubscribed |-> message.send_to_unsubscribed,
      queue_draft |-> message.queue_draft, bcc |-> message.bcc,
      cc |-> message.cc, fake_bcc |-> message.fake_bcc,
      reply_to |-> message.reply_to, preheader |-> message.preheader,
      headers |-> message.headers,
      disable_css_preprocessing |-> message.disable_css_preprocessing,
      tracked |-> message.tracked,
      transactional_message_id |-> message.transactional_message_id,
      body |-> message.body, body_amp |-> message.amp_body,
      body_plain |-> message.plaintext_body, subject |-> message.subject,
      from |-> message.from, language |-> message.language ]

pushPayload(request) ==
    [ identifiers |-> request.identifiers,
      transactional_message_id |-> request.transactional_message_id,
      title |-> request.title, body |-> request.body,
      message_data |-> request.message_data ]

\* variant: the template id is passed on as it is
smsPayloadUnconverted(request) ==
    [ identifiers |-> request.identifiers,
      transactional_message_id |-> request.transactional_message_id,
      to |-> request.to, from |-> request.from, body |-> request.body,
      message_data |-> request.message_data ]

smsPayload(request) ==
    LET tmid == request.transactional_message_id
        transactionalMessageId ==
            IF /\ tmid.t # "undefined"
               /\ tmid.t # "null"
               /\ ~(tmid.t = "string" /\ Len(tmid.v) = 0)
            THEN String(tmid) ELSE Undef
    IN [ identifiers |-> request.identifiers,
         transactional_message_id |-> transactionalMessageId,
         to |-> request.to, from |-> request.from, body |-> request.body,
         message_data |-> request.message_data ]

\* the body of the POST of a send
Payload(op, request) ==
    CASE op = "sendEmail" -> cleanPayload(emailPayload(request.message))
      [] op = "sendPush" -> cleanPayload(pushPayload(request))
      [] op = "sendSms" -> cleanPayload(smsPayload(request))

\* what a send does between validation and its POST
BeforePost(c) ==
    LET c1 == IF c.op = "sendEmail" THEN warnUnsupportedFields(c) ELSE c
        c2 == IF c.op \in SendOps
              THEN [c1 EXCEPT !.payload = Payload(c.op, c.args.request)]
              ELSE c1
    IN Warn(c2, "will NOT be sent to Customer.io", <<>>,
            /\ c.op \in SendOps
            /\ client.sendToCustomerIo
            /\ client.customerIoClient # "null"
            /\ client.config.debug)

\* the path each method requests
Endpoint(op) ==
    CASE op = "ping" -> "/v1/health/ping"
      [] op = "identify" -> "/v1/persons/identify"
      [] op = "track" -> "/v1/persons/track"
      [] op = "registerDevice" -> "/v1/persons/registerDevice"
      [] op = "sendEmail" -> "/v1/send/email"
      [] op = "sendPush" -> "/v1/send/push"
      [] op = "sendSms" -> "/v1/send/sms"

\* variant: the first request of a client is preceded by a health probe
CallPrimaryProbeFirst(c) ==
    [c EXCEPT !.pc = "primary", !.primary = @ + 1,
              !.requests =
                  IF \A k \in 1..Len(calls) : calls[k].requests = <<>>
                  THEN @ \o <<"/v1/health/ping", Endpoint(c.op)>>
                  ELSE Append(@, Endpoint(c.op))]

\* await this.axiosInstance.post(...) / get(...)
CallPrimary(c) ==
    [c EXCEPT !.pc = "primary", !.primary = @ + 1,
              !.requests = Append(@, Endpoint(c.op))]

\* variant: the validation is skipped
runUnvalidated(c) ==
    IF DualWrite(c.op) THEN CallSecondary(c)
    ELSE CallPrimary(BeforePost(c))

\* the limited function from its start to its first await
run(c) ==
    LET message == Validate(c.op, c.args)
    IN IF message # "ok" THEN ValidationFailed(c, message)
       ELSE IF DualWrite(c.op) THEN CallSecondary(c)
       ELSE CallPrimary(BeforePost(c))

\* the method from the settling of the secondary call to its next await
AfterSecondary(c, ok) ==
    IF ok
    THEN CallPrimary(LogIf([c EXCEPT !.secResult = "ok"], "debug",
                           client.config.debug /\ c.op # "registerDevice"))
    ELSE LET c1 == LogIf([c EXCEPT !.secResult = "failed"], "error",
                         client.config.debug)
         IN IF Throws
            THEN Throw(LogIf(c1, "error",
                             client.config.debug /\ c.op = "track"),
                       "secondary")
            ELSE CallPrimary(c1)

\* what axios hands back: a response, or an error that carries the
\* response of the server or none
Response(status, message) ==
    [t |-> "object", status |-> status, data |-> [message |-> message]]

Present == [t |-> "object"]

AxiosError(message, response) ==
    [ t |-> "object", ok |-> FALSE, message |-> message, name |-> Undef,
      code |-> Undef, summary |-> Undef, status |-> Undef,
      response |-> response, config |-> Present, request |-> Present,
      stack |-> Present ]

Success == [t |-> "object", ok |-> TRUE, response |-> Response(Num(200), Undef)]

Truncated == Str(<<"[", "t", "r", "u", "n", "c", "a", "t", "e", "d", "]">>)

ErrorName(op) ==
    CASE op = "sendEmail" -> "CDPEmailError"
      [] op = "sendPush" -> "CDPPushError"
      [] op = "sendSms" -> "CDPSmsError"

ErrorCode(op) ==
    CASE op = "sendEmail" -> "EMAIL_SEND_FAILED"
      [] op = "sendPush" -> "PUSH_SEND_FAILED"
      [] op = "sendSms" -> "SMS_SEND_FAILED"

\* error?.response?.status
responseStatus(error) ==
    IF error.response.t = "undefined" THEN Undef ELSE error.response.status

errorSummary(error) ==
    [ message |-> error.message,
      status |-> responseStatus(error),
      data |-> IF /\ error.response.t # "undefined"
                  /\ Truthy(error.response.data.message)
               THEN error.response.data.message ELSE Truncated ]

\* variant: the status is copied from the response as it is
cleanErrorStatusCopied(op, error) ==
    [ error EXCEPT
        !.message = errorSummary(error).data,
        !.name = Str(<<ErrorName(op)>>),
        !.code = Str(<<ErrorCode(op)>>),
        !.summary = errorSummary(error),
        !.status = responseStatus(error),
        !.config = Undef, !.request = Undef, !.stack = Undef,
        !.response = IF op = "sendEmail" THEN @ ELSE Undef ]

\* variant: the request object is left on the error
cleanErrorKeepingRequest(op, error) ==
    [ error EXCEPT
        !.message = errorSummary(error).data,
        !.name = Str(<<ErrorName(op)>>),
        !.code = Str(<<ErrorCode(op)>>),
        !.summary = errorSummary(error),
        !.status = IF Truthy(responseStatus(error))
                   THEN responseStatus(error) ELSE Num(400),
        !.config = Undef, !.stack = Undef,
        !.response = IF op = "sendEmail" THEN @ ELSE Undef ]

\* the error as the catch block of a send leaves it
cleanError(op, error) ==
    [ error EXCEPT
        !.message = IF Truthy(errorSummary(error).data)
                    THEN errorSummary(error).data
                    ELSE IF Truthy(errorSummary(error).message)
                    THEN errorSummary(error).message ELSE @,
        !.name = Str(<<ErrorName(op)>>),
        !.code = Str(<<ErrorCode(op)>>),
        !.summary = errorSummary(error),
        !.status = IF Truthy(responseStatus(error))
                   THEN responseStatus(error) ELSE Num(400),
        !.config = Undef, !.request = Undef, !.stack = Undef,
        !.response = IF op = "sendEmail" THEN @ ELSE Undef ]

\* variant: a failed primary request is issued a second time
AfterPrimaryRetrying(c, res) ==
    IF res.ok
    THEN Return(LogIf([c EXCEPT !.primResult = "ok", !.transport = res],
                      "debug", client.config.debug /\ c.op # "registerDevice"),
                IF c.op \in SendOps THEN "response.data" ELSE "undefined")
    ELSE IF c.primary < 2
    THEN [c EXCEPT !.primary = @ + 1,
                   !.requests = Append(@, Endpoint(c.op))]
    ELSE Throw([c EXCEPT !.primResult = "failed", !.transport = res],
               "transport")

\* variant: identify, track and registerDevice give their error a status
\* and a summary too
AfterPrimaryNormalizingAll(c, res) ==
    IF res.ok
    THEN Return(LogIf([c EXCEPT !.primResult = "ok", !.transport = res],
                      "debug", client.config.debug /\ c.op # "registerDevice"),
                IF c.op \in SendOps THEN "response.data" ELSE "undefined")
    ELSE LET c1 == LogIf([c EXCEPT !.primResult = "failed", !.transport = res,
                                   !.caught =
                                       IF c.op \in SendOps
                                       THEN cleanError(c.op, res)
                                       ELSE [res EXCEPT
                                               !.summary = errorSummary(res),
                                               !.status =
                                                 IF Truthy(responseStatus(res))
                                                 THEN responseStatus(res)
                                                 ELSE Num(400)]],
                         "error", client.config.debug)
         IN IF Throws THEN Throw(c1, "transport")
            ELSE Return(c1, IF c.op = "sendEmail" THEN "ok:false"
                            ELSE "undefined")

\* variant: every send answers a swallowed failure with {ok: false, error}
AfterPrimarySendsReturnError(c, res) ==
    IF res.ok
    THEN Return(LogIf([c EXCEPT !.primResult = "ok", !.transport = res],
                      "debug", client.config.debug /\ c.op # "registerDevice"),
                IF c.op \in SendOps THEN "response.data" ELSE "undefined")
    ELSE LET c1 == LogIf([c EXCEPT !.primResult = "failed", !.transport = res,
                                   !.caught = IF c.op \in SendOps
                                              THEN cleanError(c.op, res)
                                              ELSE res],
                         "error", client.config.debug)
         IN IF Throws THEN Throw(c1, "transport")
            ELSE Return(c1, IF c.op \in SendOps THEN "ok:false"
                            ELSE "undefined")

\* variant: once the primary request of some call has failed, the client
\* stops reporting the outcome of the requests that follow
AfterPrimaryBreaking(c, res) ==
    IF \E k \in 1..Len(calls) : calls[k].primResult = "failed"
    THEN Return([c EXCEPT !.primResult = IF res.ok THEN "ok" ELSE "failed",
                          !.transport = res], "undefined")
    ELSE IF res.ok
    THEN Return(LogIf([c EXCEPT !.primResult = "ok", !.transport = res],
                      "debug", client.config.debug /\ c.op # "registerDevice"),
                IF c.op \in SendOps THEN "response.data" ELSE "undefined")
    ELSE LET c1 == LogIf([c EXCEPT !.primResult = "failed", !.transport = res,
                                   !.caught = IF c.op \in SendOps
                                              THEN cleanError(c.op, res)
                                              ELSE res],
                         "error", client.config.debug)
         IN IF Throws THEN Throw(c1, "transport")
            ELSE Return(c1, IF c.op = "sendEmail" THEN "ok:false"
                            ELSE "undefined")

\* the method from the settling of the primary request to its end
AfterPrimary(c, res) ==
    IF res.ok
    THEN Return(LogIf([c EXCEPT !.primResult = "ok", !.transport = res],
                      "debug", client.config.debug /\ c.op # "registerDevice"),
                IF c.op \in SendOps THEN "response.data" ELSE "undefined")
    ELSE LET c1 == LogIf([c EXCEPT !.primResult = "failed", !.transport = res,
                                   !.caught = IF c.op \in SendOps
                                              THEN cleanError(c.op, res)
                                              ELSE res],
                         "error", client.config.debug)
         IN IF Throws THEN Throw(c1, "transport")
            ELSE Return(c1, IF c.op = "sendEmail" THEN "ok:false"
                            ELSE "undefined")

(***************************************************************************)
(* The limiter (p-limit) and the actions.                                  *)
(***************************************************************************)
NewCall(op, args) ==
    [ op |-> op, args |-> args, pc |-> "queued", secondary |-> 0,
      secMethod |-> "none", secResult |-> "none", primary |-> 0,
      primResult |-> "none", outcome |-> "pending",
      value |-> "none", error |-> "", log |-> NoLog, warnings |-> <<>>,
      payload |-> <<>>, transport |-> Undef, caught |-> Undef,
      requests |-> <<>> ]

\* variant: off-by-one admission test
CanAdmitOneMore == activeCount <= client.concurrency /\ Len(queue) > 0

\* p-limit: activeCount < concurrency && queue.size > 0
CanAdmit == activeCount < client.concurrency /\ Len(queue) > 0

\* variant: the newest waiting call is taken
DequeueLast == queue[Len(queue)]

\* p-limit: queue.dequeue()
Dequeue == Head(queue)

\* microtasks run before any I/O callback
MicrotasksPending ==
    \/ pendingChecks > 0
    \/ \E i \in 1..Len(calls) : calls[i].pc = "returned"

\* the arguments the application passes to an operation
Inputs(op) ==
    CASE app.inputs = "identifiers" /\ op = "sendEmail" ->
            EmailArgs({[ValidEmail EXCEPT !.identifiers = x] :
                          x \in IdentifierChoices})
      [] app.inputs = "identifiers" /\ op = "sendPush" ->
            RequestArgs({[ValidPush EXCEPT !.identifiers = x] :
                            x \in IdentifierChoices})
      [] app.inputs = "identifiers" /\ op = "sendSms" ->
            RequestArgs({[ValidSms EXCEPT !.identifiers = x] :
                            x \in IdentifierChoices})
      [] app.inputs = "raw" /\ op = "sendEmail" -> EmailArgs(RawMessages)
      [] app.inputs = "payload" /\ op \in SendOps -> PayloadArgs(op)
      [] app.inputs = "unsupported" /\ op = "sendEmail" ->
            EmailArgs(UnsupportedMessages)
      [] app.inputs = "template" /\ op \in SendOps -> TemplateArgs(op)
      [] app.inputs = "order" /\ op = "sendEmail" -> EmailArgs(OrderMessages)
      [] app.inputs = "order" /\ op = "sendSms" -> RequestArgs(OrderSms)
      [] app.inputs = "shape" /\ op \in SendOps -> ShapeArgs(op)
      [] app.inputs = "phone" /\ op = "sendSms" -> RequestArgs(PhoneSms)
      [] app.inputs = "addresses" /\ op = "sendEmail" ->
            EmailArgs(AddressMessages)
      [] OTHER -> Args(op)

\* the outcomes of the primary request that are tried
Responses ==
    { Success,
      AxiosError(Str(<<"E">>),
                 Response(Num(404), Str(<<"g", "o", "n", "e">>))) }
    \cup IF app.inputs = "errors"
         THEN { AxiosError(Str(<<"E">>), Response(Num(500), Undef)),
                AxiosError(Str(<<"t", "i", "m", "e", "o", "u", "t">>), Undef) }
         ELSE {}

\* every combination of the flags, on one slot; the ceilings are varied in
\* CtorConfigs and LimiterConfigs
Configs ==
    [ failOnException : BOOLEAN, debug : BOOLEAN,
      maxConcurrentRequests : {Num(1)}, cdpLogger : {TRUE},
      sendToCustomerIo : BOOLEAN, customerIo : BOOLEAN ]

CtorConfigs ==
    [ failOnException : BOOLEAN, debug : BOOLEAN,
      maxConcurrentRequests :
          {Undef} \cup {Num(n) : n \in (0 - NegRequested)..MaxRequested},
      cdpLogger : BOOLEAN, sendToCustomerIo : BOOLEAN, customerIo : {TRUE} ]

\* a ceiling above the maximum, dual-write configured
CappedConfigs ==
    [ failOnException : BOOLEAN, debug : BOOLEAN,
      maxConcurrentRequests : {Num(MaxRequested)}, cdpLogger : {TRUE},
      sendToCustomerIo : {TRUE}, customerIo : {TRUE} ]

Clients(configs) ==
    { Constructor(config, th) : config \in configs, th \in {FALSE} }
    \cup { Constructor(config, TRUE) :
             config \in {x \in configs : x.sendToCustomerIo /\ x.customerIo} }

\* the limiter under load: small ceilings, dual-write configured
LimiterConfigs ==
    [ failOnException : BOOLEAN, debug : {FALSE},
      maxConcurrentRequests : {Num(1), Num(2)}, cdpLogger : {TRUE},
      sendToCustomerIo : {TRUE}, customerIo : {TRUE} ]

\* one profile operation and one send per application
LimiterMenus ==
    { {"identify", "sendEmail"}, {"track", "sendPush"},
      {"registerDevice", "sendSms"} }

\* the inputs one at a time: one slot, dual-write configured
InputConfigs ==
    [ failOnException : BOOLEAN, debug : BOOLEAN,
      maxConcurrentRequests : {Num(1)}, cdpLogger : {TRUE},
      sendToCustomerIo : {TRUE}, customerIo : {TRUE} ]

Idle ==
    /\ calls = <<>>
    /\ queue = <<>>
    /\ activeCount = 0
    /\ pendingChecks = 0

\* the operations one application uses: the probe with two profile
\* operations and a send, or with a profile operation and two sends
Menus ==
    { {"ping", "identify", "track", "sendEmail"},
      {"ping", "registerDevice", "sendPush", "sendSms"} }

Init ==
    /\ client \in Clients(Configs)
    /\ app \in { [budget |-> MaxCalls, ops |-> m, inputs |-> "basic"] :
                    m \in Menus }
    /\ Idle

\* every flag and every ceiling with the basic calls; the largest ceiling,
\* dual-write configured, with emails that set unsupported fields
InitCtor ==
    /\ \/ /\ client \in Clients(CtorConfigs)
          /\ app = [budget |-> MaxCtorCalls, ops |-> Ops, inputs |-> "basic"]
       \/ /\ client \in Clients(CappedConfigs)
          /\ app = [budget |-> MaxCtorCalls, ops |-> {"sendEmail"},
                    inputs |-> "unsupported"]
    /\ Idle

InitLimiter ==
    /\ client \in Clients(LimiterConfigs)
    /\ app \in { [budget |-> MaxQueued, ops |-> m, inputs |-> "basic"] :
                    m \in LimiterMenus }
    /\ Idle

\* calls that run to their end: one or two slots, dual-write configured
LiveConfigs ==
    [ failOnException : BOOLEAN, debug : {FALSE},
      maxConcurrentRequests : {Num(1), Num(2)}, cdpLogger : {TRUE},
      sendToCustomerIo : {TRUE}, customerIo : {TRUE} ]

InitLive ==
    /\ client \in {Constructor(config, FALSE) : config \in LiveConfigs}
    /\ app = [budget |-> MaxLiveCalls, ops |-> {"ping", "track", "sendSms"},
              inputs |-> "basic"]
    /\ Idle

\* the values the application assigns to the fields of its config object
ConfigValues(f) ==
    IF f = "maxConcurrentRequests" THEN {Num(1), Num(2)} ELSE BOOLEAN

MutableFields ==
    {"failOnException", "debug", "maxConcurrentRequests", "sendToCustomerIo"}

InitMutable ==
    /\ client = Constructor(BuiltConfig, FALSE)
    /\ app = [budget |-> MaxMutableCalls, ops |-> {"identify"},
              inputs |-> "basic"]
    /\ Idle

InitInputs ==
    /\ client \in {Constructor(config, FALSE) : config \in InputConfigs}
    /\ app \in { [budget |-> MaxInputCalls, ops |-> m.ops,
                   inputs |-> m.inputs] : m \in InputModes }
    /\ Idle

\* variant: the input is validated before the call is handed to the limiter
CallValidatingFirst(op, args) ==
    /\ app.budget > 0
    /\ op \in app.ops
    /\ app' = [app EXCEPT !.budget = @ - 1]
    /\ IF op = "ping"
       THEN /\ calls' = Append(calls, CallPrimary(NewCall(op, args)))
            /\ UNCHANGED <<queue, pendingChecks>>
       ELSE IF Validate(op, args) # "ok"
       THEN /\ calls' = Append(calls, ValidationFailed(NewCall(op, args),
                                                      Validate(op, args)))
            /\ UNCHANGED <<queue, pendingChecks>>
       ELSE /\ calls' = Append(calls, NewCall(op, args))
            /\ queue' = Append(queue, Len(calls) + 1)
            /\ pendingChecks' = pendingChecks + 1
    /\ UNCHANGED <<client, activeCount>>

\* variant: the sends issue their POST at once, as ping() does its GET
CallUnlimitedSends(op, args) ==
    /\ app.budget > 0
    /\ op \in app.ops
    /\ app' = [app EXCEPT !.budget = @ - 1]
    /\ IF op \in {"ping"} \cup SendOps
       THEN /\ calls' = Append(calls, CallPrimary(NewCall(op, args)))
            /\ UNCHANGED <<queue, pendingChecks>>
       ELSE /\ calls' = Append(calls, NewCall(op, args))
            /\ queue' = Append(queue, Len(calls) + 1)
            /\ pendingChecks' = pendingChecks + 1
    /\ UNCHANGED <<client, activeCount>>

\* a public method is called.  ping() issues its GET at once; the others
\* hand their function to this.limited(), which enqueues it and schedules
\* an admission check
Call(op, args) ==
    /\ app.budget > 0
    /\ op \in app.ops
    /\ app' = [app EXCEPT !.budget = @ - 1]
    /\ IF op = "ping"
       THEN /\ calls' = Append(calls, CallPrimary(NewCall(op, args)))
            /\ UNCHANGED <<queue, pendingChecks>>
       ELSE /\ calls' = Append(calls, NewCall(op, args))
            /\ queue' = Append(queue, Len(calls) + 1)
            /\ pendingChecks' = pendingChecks + 1
    /\ UNCHANGED <<client, activeCount>>

\* p-limit's admission check: starts the head of the queue if a slot is free
Admit ==
    /\ pendingChecks > 0
    /\ pendingChecks' = pendingChecks - 1
    /\ IF CanAdmit
       THEN /\ activeCount' = activeCount + 1
            /\ calls' = [calls EXCEPT ![Dequeue] = run(calls[Dequeue])]
            /\ queue' = SelectSeq(queue, LAMBDA k : k # Dequeue)
       ELSE UNCHANGED <<activeCount, calls, queue>>
    /\ UNCHANGED <<client, app>>

\* the secondary (Customer.io) call of call i settles
SecondaryResponse(i, ok) ==
    /\ ~MicrotasksPending
    /\ calls[i].pc = "secondary"
    /\ calls' = [calls EXCEPT ![i] = AfterSecondary(calls[i], ok)]
    /\ UNCHANGED <<client, queue, activeCount, pendingChecks, app>>

\* the primary (OpenCDP) request of call i settles
PrimaryResponse(i, res) ==
    /\ ~MicrotasksPending
    /\ calls[i].pc = "primary"
    /\ calls' = [calls EXCEPT ![i] =
                    IF calls[i].op = "ping"
                    THEN [AfterPrimary(calls[i], res) EXCEPT !.pc = "settled"]
                    ELSE AfterPrimary(calls[i], res)]
    /\ UNCHANGED <<client, queue, activeCount, pendingChecks, app>>

\* variant: a call that threw keeps its slot
ReleaseUnlessRejected(i) ==
    /\ calls[i].pc = "returned"
    /\ IF Len(queue) > 0
       THEN /\ activeCount' = activeCount
                    + (IF calls[i].outcome = "rejected" THEN 1 ELSE 0)
            /\ calls' = [calls EXCEPT ![i].pc = "settled",
                                      ![Dequeue] = run(calls[Dequeue])]
            /\ queue' = SelectSeq(queue, LAMBDA k : k # Dequeue)
       ELSE /\ activeCount' = activeCount
                    - (IF calls[i].outcome = "rejected" THEN 0 ELSE 1)
            /\ calls' = [calls EXCEPT ![i].pc = "settled"]
            /\ queue' = queue
    /\ UNCHANGED <<client, pendingChecks, app>>

\* variant: the slot is given back but the head of the queue is not started
ReleaseWithoutNext(i) ==
    /\ calls[i].pc = "returned"
    /\ activeCount' = activeCount - 1
    /\ calls' = [calls EXCEPT ![i].pc = "settled"]
    /\ UNCHANGED <<client, queue, pendingChecks, app>>

\* p-limit's next(), run once the limited function of call i has settled:
\* gives the slot back and starts the head of the queue
Release(i) ==
    /\ calls[i].pc = "returned"
    /\ IF Len(queue) > 0
       THEN /\ activeCount' = activeCount
            /\ calls' = [calls EXCEPT ![i].pc = "settled",
                                      ![Dequeue] = run(calls[Dequeue])]
            /\ queue' = SelectSeq(queue, LAMBDA k : k # Dequeue)
       ELSE /\ activeCount' = activeCount - 1
            /\ calls' = [calls EXCEPT ![i].pc = "settled"]
            /\ queue' = queue
    /\ UNCHANGED <<client, pendingChecks, app>>

Next ==
    \/ \E op \in Ops : \E args \in Inputs(op) : Call(op, args)
    \/ Admit
    \/ \E i \in 1..Len(calls) : \E ok \in BOOLEAN : SecondaryResponse(i, ok)
    \/ \E i \in 1..Len(calls) : \E res \in Responses : PrimaryResponse(i, res)
    \/ \E i \in 1..Len(calls) : Release(i)

\* the application assigns to a field of the object it passed to the
\* constructor, which is the object the client keeps as this.config
SetConfig(f, v) ==
    /\ client.config[f] # v
    /\ client' = [client EXCEPT !.config = [@ EXCEPT ![f] = v]]
    /\ UNCHANGED <<calls, queue, activeCount, pendingChecks, app>>

NextMutable ==
    \/ Next
    \/ \E f \in MutableFields : \E v \in ConfigValues(f) : SetConfig(f, v)

Spec == Init /\ [][Next]_vars

SpecMutable == InitMutable /\ [][NextMutable]_vars

SpecCtor == InitCtor /\ [][Next]_vars

SpecLimiter == InitLimiter /\ [][Next]_vars

SpecInputs == InitInputs /\ [][Next]_vars

\* the microtasks of the event loop always run, and every secondary call and
\* every primary request that is in flight settles in the end
Fairness ==
    /\ WF_vars(Admit)
    /\ \A i \in 1..MaxLiveCalls :
            /\ WF_vars(i \in 1..Len(calls) /\ Release(i))
            /\ WF_vars(/\ i \in 1..Len(calls)
                       /\ \E ok \in BOOLEAN : SecondaryResponse(i, ok))
            /\ WF_vars(/\ i \in 1..Len(calls)
                       /\ \E res \in Responses : PrimaryResponse(i, res))

SpecLive == InitLive /\ [][Next]_vars /\ Fairness

(***************************************************************************)
(* Properties.                                                             *)
(***************************************************************************)
CallIds == 1..Len(calls)

\* call i has started executing in the limiter and not yet given its slot back
Executing(i) ==
    /\ calls[i].op \in LimitedOps
    /\ calls[i].pc \in {"secondary", "primary", "returned"}

NumExecuting == Cardinality({i \in CallIds : Executing(i)})

Finished(i) == calls[i].pc \in {"returned", "settled"}

Invalid(i) == Validate(calls[i].op, calls[i].args) # "ok"

\* dual-write as the configuration asks for it
Configured == client.config.sendToCustomerIo /\ client.config.customerIo

MatchingMethod(op) ==
    CASE op = "identify" -> "identify"
      [] op = "track" -> "track"
      [] op = "registerDevice" -> "addDevice"

\* C1: at most C limited calls are executing at any time, a waiting call has
\* issued no secondary and no primary request, and a waiting call starts
\* only when fewer than C calls are executing or in the step in which an
\* executing call gives its slot back.
C1_ConcurrencyCeiling ==
    /\ [](/\ NumExecuting <= client.concurrency
          /\ \A i \in CallIds : calls[i].pc = "queued" =>
                calls[i].primary = 0 /\ calls[i].secondary = 0)
    /\ [][\A i \in CallIds :
            (calls[i].pc = "queued" /\ calls'[i].pc # "queued") =>
                \/ NumExecuting < client.concurrency
                \/ \E j \in CallIds : /\ Executing(j)
                                      /\ calls'[j].pc = "settled"]_vars

\* C1 witness: C calls are executing and a further call, whose admission
\* check has run, waits in the queue without having issued a request.
C1_Witness ==
    /\ NumExecuting = client.concurrency
    /\ pendingChecks = 0
    /\ Len(queue) > 0
    /\ \E i \in CallIds : calls[i].pc = "primary" /\ calls[i].op \in LimitedOps

\* C2: for identify, track and registerDevice, a failed secondary call never
\* makes the call reject and the primary POST is still issued, whatever
\* failOnException is.
C2_SecondaryFailureIsolated ==
    \A i \in CallIds :
        (calls[i].op \in ProfileOps /\ calls[i].secResult = "failed") =>
            /\ calls[i].outcome # "rejected"
            /\ calls[i].primary = 1

\* C3: sendEmail, sendPush and sendSms never invoke a method of the
\* secondary client; once started with valid input they have issued their
\* one primary request.
C3_SendsPrimaryOnly ==
    \A i \in CallIds : calls[i].op \in SendOps =>
        /\ calls[i].secondary = 0
        /\ calls[i].secMethod = "none"
        /\ calls[i].secResult = "none"
        /\ (calls[i].pc # "queued" /\ ~Invalid(i)) => calls[i].primary = 1

\* C3 witness: on a client whose dual-write is active a valid send has
\* completed its primary request.
C3_Witness ==
    /\ client.sendToCustomerIo
    /\ client.customerIoClient # "null"
    /\ \E i \in CallIds : /\ calls[i].op \in SendOps
                          /\ calls[i].primResult = "ok"
                          /\ calls[i].pc = "settled"

\* C4 as stated: with sendToCustomerIo true and credentials supplied, every
\* started identify/track/registerDevice call with valid input has invoked
\* the matching secondary method exactly once; otherwise no secondary
\* method is ever invoked.
C4_DualWriteWhenConfigured ==
    \A i \in CallIds :
        IF Configured /\ calls[i].op \in ProfileOps /\ ~Invalid(i)
           /\ calls[i].pc # "queued"
        THEN calls[i].secondary = 1
             /\ calls[i].secMethod = MatchingMethod(calls[i].op)
        ELSE Configured \/ calls[i].secondary = 0

\* C4 amended: the same, for a client whose secondary client was constructed
\* (sendToCustomerIo true, credentials supplied and the TrackClient
\* constructor did not throw); on every other client no secondary method is
\* ever invoked, and no call invokes one more than once.
C4_DualWriteWhenConstructed ==
    \A i \in CallIds :
        /\ calls[i].secondary <= 1
        /\ IF client.sendToCustomerIo /\ client.customerIoClient # "null"
           THEN (calls[i].op \in ProfileOps /\ ~Invalid(i)
                 /\ calls[i].pc # "queued") =>
                    /\ calls[i].secondary = 1
                    /\ calls[i].secMethod = MatchingMethod(calls[i].op)
           ELSE calls[i].secondary = 0

\* C4 witness: a valid track call has settled after one secondary track
\* call, on a client with the secondary client constructed.
C4_Witness ==
    /\ client.customerIoClient # "null"
    /\ \E i \in CallIds : /\ calls[i].op = "track"
                          /\ calls[i].pc = "settled"
                          /\ calls[i].secondary = 1
                          /\ calls[i].secMethod = "track"

C6_AlwaysRejectsWhenThrowing ==
    client.config.failOnException =>
        \A i \in CallIds :
            /\ Invalid(i) =>
                /\ calls[i].outcome # "resolved"
                /\ Finished(i) =>
                    /\ calls[i].outcome = "rejected"
                    /\ calls[i].value = "validation"
                    /\ calls[i].error = Validate(calls[i].op, calls[i].args)
            /\ calls[i].primResult = "failed" =>
                /\ calls[i].outcome = "rejected"
                /\ calls[i].value = "transport"

\* C6 witness: with failOnException true one call rejected with its
\* validation error and another with the failure of its primary request.
C6_Witness ==
    /\ client.config.failOnException
    /\ \E i \in CallIds : /\ Invalid(i)
                          /\ calls[i].outcome = "rejected"
                          /\ calls[i].value = "validation"
    /\ \E i \in CallIds : /\ calls[i].primResult = "failed"
                          /\ calls[i].outcome = "rejected"

\* C7: a call whose input fails validation issues no primary request and no
\* secondary call, for every operation and both values of failOnException.
C7_InvalidIssuesNothing ==
    \A i \in CallIds : Invalid(i) =>
        /\ calls[i].primary = 0
        /\ calls[i].secondary = 0
        /\ calls[i].pc \in {"queued", "returned", "settled"}

\* C7 witness: a profile call with invalid input has settled on a client
\* whose dual-write is active.
C7_Witness ==
    /\ client.customerIoClient # "null"
    /\ \E i \in CallIds : /\ Invalid(i)
                          /\ calls[i].op \in ProfileOps
                          /\ calls[i].pc = "settled"

Clamp(n, lo, hi) == IF n < lo THEN lo ELSE IF n > hi THEN hi ELSE n

C9_FifoAdmission ==
    [][\A i \in CallIds : \A j \in CallIds :
          (i < j /\ calls[j].pc = "queued" /\ calls'[j].pc # "queued")
              => calls[i].pc # "queued"]_vars

\* C9 witness: all slots are taken and two calls wait, their admission
\* checks having run.
C9_Witness ==
    /\ activeCount = client.concurrency
    /\ pendingChecks = 0
    /\ Len(queue) >= 2

\* C10: a slot is held exactly by the calls that are executing, so every
\* settled call has given its slot back whatever its outcome; once every
\* call made has settled no slot is held and the queue is empty.
C10_SlotsReturned ==
    /\ activeCount = NumExecuting
    /\ (\A i \in CallIds : calls[i].pc = "settled") =>
            activeCount = 0 /\ queue = <<>>

\* C10 witness: the application has made all its calls, more than the
\* capacity, and all have settled, at least one of them by throwing.
C10_Witness ==
    /\ app.budget = 0
    /\ Len(calls) > client.concurrency
    /\ \A i \in CallIds : calls[i].pc = "settled"
    /\ \E i \in CallIds : calls[i].outcome = "rejected"
    /\ activeCount = 0

\* the calls whose secondary call or primary request is in flight
InFlight == {i \in CallIds : calls[i].pc \in {"secondary", "primary"}}

RequestOf(i) ==
    IF calls[i].op = "sendEmail" THEN calls[i].args.request.message
    ELSE calls[i].args.request

\* the request a send is valid with
ValidRequest(op) ==
    CASE op = "sendEmail" -> ValidEmail
      [] op = "sendPush" -> ValidPush
      [] op = "sendSms" -> ValidSms

\* a value that is absent or empty
Missing(v) == v.t \in {"undefined", "null"} \/ v = Str(<<>>)

\* the number of the keys id, email, cdp_id that have a non-empty value
IdentifierCount(ids) ==
    Cardinality({k \in {"id", "email", "cdp_id"} : ~Missing(ids[k])})

\* a send whose request is valid but for its identifiers, and was validated
IdentifiersTried(i) ==
    /\ calls[i].op \in SendOps
    /\ calls[i].pc # "queued"
    /\ RequestOf(i).identifiers \in IdentifierChoices
    /\ [RequestOf(i) EXCEPT !.identifiers = Identifiers(U1, Undef, Undef)]
            = ValidRequest(calls[i].op)

\* C13: a send is accepted iff exactly one of id, email, cdp_id of its
\* identifiers has a non-empty value, and is rejected with the message
\* 'identifiers must contain exactly one of: id, email, or cdp_id' otherwise.
C13_ExactlyOneIdentifier ==
    \A i \in CallIds : IdentifiersTried(i) =>
        IF IdentifierCount(RequestOf(i).identifiers) = 1
        THEN calls[i].error = ""
        ELSE calls[i].error
                = "identifiers must contain exactly one of: id, email, or cdp_id"

RequiredText(field) == field \o " is required when not using a template"

\* the message for an email without a template, by the fields it lacks
ExpectedRawMessage(noBody, noSubject, noFrom) ==
    CASE noBody /\ noSubject /\ noFrom ->
            "When not using a template: " \o RequiredText("body") \o ", "
                \o RequiredText("subject") \o ", " \o RequiredText("from")
      [] noBody /\ noSubject /\ ~noFrom ->
            "When not using a template: " \o RequiredText("body") \o ", "
                \o RequiredText("subject")
      [] noBody /\ ~noSubject /\ noFrom ->
            "When not using a template: " \o RequiredText("body") \o ", "
                \o RequiredText("from")
      [] ~noBody /\ noSubject /\ noFrom ->
            "When not using a template: " \o RequiredText("subject") \o ", "
                \o RequiredText("from")
      [] noBody /\ ~noSubject /\ ~noFrom ->
            "When not using a template: " \o RequiredText("body")
      [] ~noBody /\ noSubject /\ ~noFrom ->
            "When not using a template: " \o RequiredText("subject")
      [] ~noBody /\ ~noSubject /\ noFrom ->
            "When not using a template: " \o RequiredText("from")
      [] OTHER -> ""

\* C14: a sendEmail request without transactional_message_id that passes
\* every other check is rejected iff body, subject or from is missing, and
\* the one message then names every missing field, in the order body,
\* subject, from.
C14_EveryMissingFieldNamed ==
    \A i \in CallIds :
        ( /\ calls[i].op = "sendEmail"
          /\ calls[i].pc # "queued"
          /\ RequestOf(i) \in RawMessages ) =>
            calls[i].error
                = ExpectedRawMessage(Missing(RequestOf(i).body),
                                     Missing(RequestOf(i).subject),
                                     Missing(RequestOf(i).from))

\* an email that has a subject but lacks body and from was rejected
C14_Witness ==
    \E i \in CallIds :
        /\ calls[i].op = "sendEmail"
        /\ RequestOf(i) \in RawMessages
        /\ Missing(RequestOf(i).body) /\ Missing(RequestOf(i).from)
        /\ ~Missing(RequestOf(i).subject)
        /\ calls[i].outcome = "rejected"
        /\ calls[i].primary = 0

\* the field of the request that a key of the payload is taken from
SourceField(k) ==
    CASE k = "body_plain" -> "plaintext_body"
      [] k = "body_amp" -> "amp_body"
      [] OTHER -> k

\* the fields of a request that are not undefined
FieldsSet(request) == {f \in DOMAIN request : request[f] # Undef}

\* C15: the payload a send posts has no key whose source field in the request
\* is undefined; an email's plaintext_body is posted as body_plain and its
\* amp_body as body_amp; and an email that sets only to, identifiers and
\* transactional_message_id is posted with exactly those three keys.
C15_PayloadIsClean ==
    \A i \in CallIds : (calls[i].op \in SendOps /\ calls[i].primary > 0) =>
        LET request == RequestOf(i)
            payload == calls[i].payload
        IN /\ \A k \in DOMAIN payload :
                /\ SourceField(k) \in FieldsSet(request)
                /\ payload[k] # Undef
           /\ calls[i].op = "sendEmail" =>
                /\ "plaintext_body" \notin DOMAIN payload
                /\ "amp_body" \notin DOMAIN payload
                /\ "plaintext_body" \in FieldsSet(request) =>
                        /\ "body_plain" \in DOMAIN payload
                        /\ payload["body_plain"] = request.plaintext_body
                /\ "amp_body" \in FieldsSet(request) =>
                        /\ "body_amp" \in DOMAIN payload
                        /\ payload["body_amp"] = request.amp_body
                /\ FieldsSet(request)
                        = {"to", "identifiers", "transactional_message_id"} =>
                        /\ DOMAIN payload = FieldsSet(request)
                        /\ \A k \in DOMAIN payload : payload[k] = request[k]

\* an email with plaintext_body and amp_body but no subject has been posted
C15_Witness ==
    \E i \in CallIds :
        /\ calls[i].op = "sendEmail"
        /\ calls[i].primary = 1
        /\ RequestOf(i).plaintext_body = Str(<<"p">>)
        /\ RequestOf(i).amp_body = Str(<<"a">>)
        /\ RequestOf(i).subject = Undef
        /\ "body_plain" \in DOMAIN calls[i].payload
        /\ "subject" \notin DOMAIN calls[i].payload

\* the name and the code the error of a failed send is to carry
ExpectedNameAndCode(op) ==
    CASE op = "sendEmail" -> <<"CDPEmailError", "EMAIL_SEND_FAILED">>
      [] op = "sendPush" -> <<"CDPPushError", "PUSH_SEND_FAILED">>
      [] op = "sendSms" -> <<"CDPSmsError", "SMS_SEND_FAILED">>

\* the HTTP status of the outcome of the primary request of call i, if any
HttpStatus(i) ==
    IF calls[i].transport.response = Undef THEN Undef
    ELSE calls[i].transport.response.status

\* C16: on a client that throws, a send whose primary request failed rejects
\* with an error that has the name and the code of its operation, carries a
\* summary, and has the HTTP status of the response as its status, or 400
\* when the transport error has no response.
C16_SendErrorIsNormalized ==
    \A i \in CallIds :
        ( /\ calls[i].op \in SendOps
          /\ calls[i].primResult = "failed"
          /\ client.config.failOnException ) =>
            /\ calls[i].outcome = "rejected"
            /\ calls[i].caught.name = Str(<<ExpectedNameAndCode(calls[i].op)[1]>>)
            /\ calls[i].caught.code = Str(<<ExpectedNameAndCode(calls[i].op)[2]>>)
            /\ calls[i].caught.summary # Undef
            /\ calls[i].caught.summary.status = HttpStatus(i)
            /\ calls[i].caught.status =
                    IF HttpStatus(i) = Undef THEN Num(400) ELSE HttpStatus(i)

\* a sendPush rejected with status 400 after a failure without a response
C16_Witness ==
    \E i \in CallIds :
        /\ calls[i].op = "sendPush"
        /\ calls[i].primResult = "failed"
        /\ calls[i].outcome = "rejected"
        /\ calls[i].transport.response = Undef
        /\ calls[i].caught.status = Num(400)

\* C17: on a client that swallows failures, a call whose primary request
\* failed with an HTTP status resolves, and the logger given to the client
\* has had its error method invoked exactly once for the call.
C17_FailureLoggedOnce ==
    \A i \in CallIds :
        ( /\ Finished(i)
          /\ calls[i].primResult = "failed"
          /\ HttpStatus(i) # Undef
          /\ ~client.config.failOnException ) =>
            /\ calls[i].outcome = "resolved"
            /\ client.logger = "cdpLogger" => calls[i].log.error = 1

\* the warnings of call i that are about the given matter
WarningsAbout(i, about) ==
    SelectSeq(calls[i].warnings, LAMBDA w : w.about = about)

\* C18: on a client with dual-write enabled, a send that passed validation
\* has emitted exactly one warning that the message will not be sent to
\* Customer.io, whatever the debug flag is, and nothing of it is logged as
\* an error or thrown.
C18_OneWarningPerSend ==
    \A i \in CallIds :
        ( /\ calls[i].op \in SendOps
          /\ calls[i].primary > 0
          /\ Configured ) =>
            /\ Len(WarningsAbout(i, "will NOT be sent to Customer.io")) = 1
            /\ calls[i].pc = "primary" =>
                    calls[i].log.error = 0 /\ calls[i].outcome = "pending"

\* the unsupported fields that a message sets
UnsupportedSet(message) == {f \in UnsupportedNames : message[f] # Undef}

\* the elements of a sequence
Range(seq) == {seq[k] : k \in 1..Len(seq)}

\* C19: a sendEmail that passed validation on a client given a logger has
\* warned once, naming each unsupported field the message sets, if it sets
\* any, and has not warned of unsupported fields if it sets none; either way
\* its request has been issued and nothing was thrown for it.
C19_UnsupportedFieldsWarned ==
    \A i \in CallIds :
        ( /\ calls[i].op = "sendEmail"
          /\ calls[i].pc # "queued"
          /\ calls[i].error = ""
          /\ client.logger = "cdpLogger" ) =>
            LET about == WarningsAbout(i, "not yet supported by the backend")
                fields == UnsupportedSet(RequestOf(i))
            IN /\ fields # {} =>
                    Len(about) = 1 /\ Range(about[1].fields) = fields
               /\ fields = {} => Len(about) = 0
               /\ calls[i].primary = 1
               /\ calls[i].pc = "primary" => calls[i].outcome = "pending"

Probes(i) == SelectSeq(calls[i].requests, LAMBDA url : url = "/v1/health/ping")

\* C22: GET /v1/health/ping is requested by ping() alone: the requests of a
\* client are those of its calls, a ping requests the probe once, and no
\* identify, track, registerDevice, sendEmail, sendPush or sendSms call ever
\* requests it.
C22_ProbeOnlyOnPing ==
    \A i \in CallIds :
        IF calls[i].op = "ping"
        THEN calls[i].requests = <<"/v1/health/ping">>
        ELSE Probes(i) = <<>>

\* a profile operation and a send have both finished their request and no
\* health probe was made
C22_Witness ==
    \E i, j \in CallIds :
        /\ calls[i].op \in ProfileOps /\ calls[i].primResult = "ok"
        /\ calls[j].op \in SendOps /\ calls[j].primResult = "ok"
        /\ \A k \in CallIds : Probes(k) = <<>>

\* the identifiers of the request of call i name exactly one key
IdentifiersValid(i) ==
    /\ RequestOf(i).identifiers.t = "object"
    /\ IdentifierCount(RequestOf(i).identifiers) = 1

\* no template: the template id is undefined, null or ''
NoTemplate(i) == Missing(RequestOf(i).transactional_message_id)

\* the string a template id is to be sent as
ExpectedTemplateId(x) ==
    CASE x.t = "string" -> x
      [] x = Num(0) -> Str(<<"0">>)
      [] x = Num(7) -> Str(<<"7">>)
      [] x = Num(42) -> Str(<<"4", "2">>)
      [] x = Num(105) -> Str(<<"1", "0", "5">>)
      [] OTHER -> Undef

\* C23: an SMS whose transactional_message_id is undefined, null or '' has
\* no template: without a body it is rejected, with 'body is required when
\* not using a template' when its identifiers are valid, and when it is
\* posted the payload has no transactional_message_id; any other template id
\* is posted as a string, the number n as its decimal text.
C23_SmsTemplateId ==
    \A i \in CallIds : (calls[i].op = "sendSms" /\ calls[i].pc # "queued") =>
        /\ (NoTemplate(i) /\ Missing(RequestOf(i).body)) =>
                /\ calls[i].error # ""
                /\ calls[i].primary = 0
                /\ IdentifiersValid(i) =>
                        calls[i].error
                            = "body is required when not using a template"
        /\ calls[i].primary > 0 =>
                IF NoTemplate(i)
                THEN "transactional_message_id" \notin DOMAIN calls[i].payload
                ELSE /\ "transactional_message_id" \in DOMAIN calls[i].payload
                     /\ calls[i].payload["transactional_message_id"]
                            = ExpectedTemplateId(
                                  RequestOf(i).transactional_message_id)

\* an SMS with the numeric template id 105 has been posted with "105"
C23_Witness ==
    \E i \in CallIds :
        /\ calls[i].op = "sendSms"
        /\ calls[i].primary = 1
        /\ RequestOf(i).transactional_message_id = Num(105)
        /\ calls[i].payload["transactional_message_id"]
                = Str(<<"1", "0", "5">>)

\* C24: a push whose transactional_message_id is missing or empty is
\* rejected with 'transactional_message_id is required' and nothing is
\* requested for it.
C24_PushNeedsTemplate ==
    \A i \in CallIds :
        ( /\ calls[i].op = "sendPush"
          /\ calls[i].pc # "queued"
          /\ NoTemplate(i) ) =>
            /\ calls[i].error = "transactional_message_id is required"
            /\ calls[i].primary = 0

\* C24 (amended): a push whose transactional_message_id is missing or empty
\* is rejected and nothing is requested for it; the message is
\* 'transactional_message_id is required' when its identifiers are valid,
\* and that of the identifiers check, which comes first, when they are not.
C24_PushNeedsTemplateAfterIdentifiers ==
    \A i \in CallIds :
        ( /\ calls[i].op = "sendPush"
          /\ calls[i].pc # "queued"
          /\ NoTemplate(i) ) =>
            /\ calls[i].primary = 0
            /\ calls[i].error =
                    IF IdentifiersValid(i)
                    THEN "transactional_message_id is required"
                    ELSE IF RequestOf(i).identifiers.t = "object"
                    THEN "identifiers must contain exactly one of: id, email, or cdp_id"
                    ELSE "identifiers is required"

\* a push with valid identifiers and an empty template id was rejected
C24_Witness ==
    \E i \in CallIds :
        /\ calls[i].op = "sendPush"
        /\ IdentifiersValid(i)
        /\ RequestOf(i).transactional_message_id = Str(<<>>)
        /\ calls[i].error = "transactional_message_id is required"
        /\ Finished(i)

\* call i waits in the queue for a slot that executing calls hold
Waiting(i) ==
    /\ calls[i].pc = "queued"
    /\ pendingChecks = 0
    /\ NumExecuting = client.concurrency

\* C25: the input of a call is validated before the call takes a slot: a
\* call with invalid input never holds a slot and never waits in the queue
\* behind the calls that are executing.
C25_InvalidNeverHoldsOrWaits ==
    \A i \in CallIds : Invalid(i) => ~Executing(i) /\ ~Waiting(i)

\* C25 (amended): the input of a call is validated once the call has been
\* given a slot: while a call is queued nothing of it has been validated, a
\* call with invalid input that has left the queue was rejected without
\* issuing a request, and until its slot is given back it counts among the
\* slots held.
C25_ValidatedOnAdmission ==
    /\ activeCount = NumExecuting
    /\ \A i \in CallIds :
            /\ calls[i].pc = "queued" =>
                    calls[i].error = "" /\ calls[i].outcome = "pending"
            /\ (Invalid(i) /\ calls[i].pc # "queued") =>
                    /\ calls[i].error # ""
                    /\ calls[i].outcome # "pending"
                    /\ calls[i].primary = 0
                    /\ calls[i].secondary = 0

\* a call with invalid input waits in the queue while the only slot is held
\* by a call whose request is in flight
C25_Witness ==
    \E i, j \in CallIds :
        /\ Invalid(i)
        /\ Waiting(i)
        /\ calls[j].op \in LimitedOps
        /\ calls[j].pc = "primary"

\* a send whose request breaks none, one or several rules, once validated
OrderTried(i) ==
    /\ calls[i].pc # "queued"
    /\ \/ calls[i].op = "sendEmail" /\ RequestOf(i) \in OrderMessages
       \/ calls[i].op = "sendSms" /\ RequestOf(i) \in OrderSms

\* the identifiers are an object that does not name exactly one key
WrongCardinality(i) ==
    /\ RequestOf(i).identifiers.t = "object"
    /\ IdentifierCount(RequestOf(i).identifiers) # 1

\* the email lacks a template and one of body, subject, from
RawIncomplete(i) ==
    /\ RequestOf(i).transactional_message_id = Undef
    /\ \/ Missing(RequestOf(i).body)
       \/ Missing(RequestOf(i).subject)
       \/ Missing(RequestOf(i).from)

\* the classes of rules, in the order (1) required top-level fields,
\* (2) identifier cardinality, (3) email and phone format, (4) cross-field
\* requirements, (5) type and shape, that the request of call i breaks
ClassesBroken(i) ==
    LET r == RequestOf(i)
    IN IF calls[i].op = "sendEmail"
       THEN (IF Missing(r.to) \/ r.identifiers = Undef THEN {1} ELSE {})
            \cup (IF WrongCardinality(i) THEN {2} ELSE {})
            \cup (IF r.to = BadAddr THEN {3} ELSE {})
            \cup (IF RawIncomplete(i) THEN {4} ELSE {})
            \cup (IF r.send_at = Num(0 - 1) THEN {5} ELSE {})
       ELSE (IF r.identifiers = Undef THEN {1} ELSE {})
            \cup (IF WrongCardinality(i) THEN {2} ELSE {})
            \cup (IF r.to = BadPhone THEN {3} ELSE {})
            \cup (IF NoTemplate(i) /\ Missing(r.body) THEN {4} ELSE {})
            \cup (IF r.message_data = Null THEN {5} ELSE {})

\* the class of the rule an error message belongs to
ClassOf(message) ==
    CASE message \in {"to is required", "identifiers is required"} -> 1
      [] message
           = "identifiers must contain exactly one of: id, email, or cdp_id"
            -> 2
      [] message \in
           {"Invalid email address format",
            "Phone number must be in international format (e.g., +1234567890)"}
            -> 3
      [] message \in
           ({"body is required when not using a template"}
            \cup ({ExpectedRawMessage(b, x, f) : b, x, f \in BOOLEAN}
                  \ {""}))
            -> 4
      [] message \in {"send_at must be a positive integer",
                      "message_data must be an object"} -> 5
      [] OTHER -> 0

\* C26: a request that breaks several rules is rejected with the error of
\* the rule of the lowest class it breaks, the classes being (1) required
\* top-level fields, (2) identifier cardinality, (3) email and phone format,
\* (4) cross-field requirements, (5) type and shape.
C26_FirstRuleByClass ==
    \A i \in CallIds : OrderTried(i) =>
        IF ClassesBroken(i) = {} THEN calls[i].error = ""
        ELSE /\ ClassOf(calls[i].error) \in ClassesBroken(i)
             /\ \A k \in ClassesBroken(i) : ClassOf(calls[i].error) <= k

\* the message of the first rule of a list that is broken
RECURSIVE FirstBroken(_)
FirstBroken(rules) ==
    IF rules = <<>> THEN ""
    ELSE IF Head(rules)[1] THEN Head(rules)[2]
    ELSE FirstBroken(Tail(rules))

\* C26 (amended): a request that breaks several rules is rejected with the
\* error of the first rule it breaks in the order of the validator of its
\* operation.  For an email: to present, to well-formed, identifiers
\* present, identifier cardinality, send_at, then body, subject and from of
\* an email without a template.  For an SMS: identifiers present,
\* identifier cardinality, body of an SMS without a template, phone format,
\* message_data.
C26_FirstRuleBySource ==
    \A i \in CallIds : OrderTried(i) =>
        LET r == RequestOf(i)
        IN calls[i].error =
            IF calls[i].op = "sendEmail"
            THEN FirstBroken(<<
                    <<Missing(r.to), "to is required">>,
                    <<r.to = BadAddr, "Invalid email address format">>,
                    <<r.identifiers = Undef, "identifiers is required">>,
                    <<WrongCardinality(i),
                      "identifiers must contain exactly one of: id, email, or cdp_id">>,
                    <<r.send_at = Num(0 - 1),
                      "send_at must be a positive integer">>,
                    <<RawIncomplete(i),
                      ExpectedRawMessage(Missing(r.body), Missing(r.subject),
                                         Missing(r.from))>> >>)
            ELSE FirstBroken(<<
                    <<r.identifiers = Undef, "identifiers is required">>,
                    <<WrongCardinality(i),
                      "identifiers must contain exactly one of: id, email, or cdp_id">>,
                    <<NoTemplate(i) /\ Missing(r.body),
                      "body is required when not using a template">>,
                    <<r.to = BadPhone,
                      "Phone number must be in international format (e.g., +1234567890)">>,
                    <<r.message_data = Null,
                      "message_data must be an object">> >>)

\* an SMS without a body and with a malformed phone number was rejected
\* for its body
C26_Witness ==
    \E i \in CallIds :
        /\ calls[i].op = "sendSms"
        /\ OrderTried(i)
        /\ RequestOf(i).to = BadPhone
        /\ Missing(RequestOf(i).body)
        /\ IdentifiersValid(i)
        /\ calls[i].error = "body is required when not using a template"

\* C27: if every secondary call and every primary request settles in the
\* end, every call that was made leaves the queue and settles, as resolved
\* or as rejected, and once it has settled nothing of it changes any more.
C27_EveryCallTerminates ==
    /\ \A i \in 1..MaxLiveCalls :
            (i \in CallIds) ~>
                (/\ i \in CallIds
                 /\ calls[i].pc = "settled"
                 /\ calls[i].outcome \in {"resolved", "rejected"})
    /\ [][\A i \in CallIds :
            calls[i].pc = "settled" => calls'[i] = calls[i]]_vars

\* every call the application makes has settled, one of them with invalid
\* input and one after its request had failed
C27_Witness ==
    /\ Len(calls) = MaxLiveCalls
    /\ \A i \in CallIds : calls[i].pc = "settled"
    /\ \E i \in CallIds : calls[i].error # ""
    /\ \E i \in CallIds : calls[i].primResult = "failed"

\* a call of identify, track or registerDevice whose primary request failed
\* on a client that throws
ProfileFailure(i) ==
    /\ calls[i].op \in ProfileOps
    /\ calls[i].primResult = "failed"
    /\ client.config.failOnException

\* C28 as stated: identify, track and registerDevice, on a client that
\* throws, reject a failed primary request with an error that carries a name,
\* a code, a summary and a status, the status being 400 when the transport
\* error has no HTTP status.
C28_ProfileErrorIsNormalized ==
    \A i \in CallIds :
        ProfileFailure(i) =>
            /\ calls[i].outcome = "rejected"
            /\ calls[i].caught.name # Undef
            /\ calls[i].caught.code # Undef
            /\ calls[i].caught.summary # Undef
            /\ calls[i].caught.status =
                    IF HttpStatus(i) = Undef THEN Num(400) ELSE HttpStatus(i)

\* C28: identify, track and registerDevice, on a client that throws, reject
\* a failed primary request with the transport error itself, unchanged: the
\* client sets no name, code, status or summary on it and removes nothing.
C28_ProfileErrorIsTransportError ==
    \A i \in CallIds :
        ProfileFailure(i) =>
            /\ calls[i].outcome = "rejected"
            /\ calls[i].value = "transport"
            /\ calls[i].caught = calls[i].transport
            /\ calls[i].caught.summary = Undef
            /\ calls[i].caught.status = Undef
            /\ calls[i].caught.request = Present

\* a track rejected after its request failed without any response
C28_Witness ==
    \E i \in CallIds :
        /\ ProfileFailure(i)
        /\ calls[i].op = "track"
        /\ calls[i].outcome = "rejected"
        /\ calls[i].transport.response = Undef

\* the message of the response body of the failed request of call i, if any
ResponseMessage(i) ==
    IF calls[i].transport.response = Undef THEN Undef
    ELSE calls[i].transport.response.data.message

\* C29: the error of a send whose primary request failed has the message of
\* the response body when the response carries one, and the message of the
\* transport error otherwise.
C29_MessageFallsBackToTransport ==
    \A i \in CallIds :
        ( /\ calls[i].op \in SendOps
          /\ calls[i].primResult = "failed" ) =>
            calls[i].caught.message =
                IF Truthy(ResponseMessage(i)) THEN ResponseMessage(i)
                ELSE calls[i].transport.message

BadShape(x) == x.t \notin {"undefined", "object"}

\* a send whose identifiers, addresses and template are in order, so that
\* only message_data and headers can be at fault
ShapeTried(i) ==
    /\ app.inputs = "shape"
    /\ calls[i].op \in SendOps
    /\ Finished(i)

\* C32 as stated: a send whose message_data is present but null, an array
\* or not an object, and a sendEmail whose headers are so, is rejected by
\* validation and issues no request.
C32_MalformedFieldsRejected ==
    \A i \in CallIds :
        ( /\ ShapeTried(i)
          /\ \/ BadShape(RequestOf(i).message_data)
             \/ calls[i].op = "sendEmail" /\ BadShape(RequestOf(i).headers) )
            => calls[i].error # "" /\ calls[i].primary = 0

\* C32: sendSms rejects a message_data that is null, an array or not an
\* object and issues no request; sendEmail rejects headers that are an array
\* or not an object, but accepts headers that are null; sendEmail and
\* sendPush do not check message_data and post it as it is.
C32_ShapeChecksBySource ==
    \A i \in CallIds :
        ShapeTried(i) =>
            LET r == RequestOf(i)
                rejected == calls[i].error # "" /\ calls[i].primary = 0
                posted == /\ calls[i].error = ""
                          /\ calls[i].primary = 1
                          /\ BadShape(r.message_data) =>
                                calls[i].payload.message_data = r.message_data
            IN CASE calls[i].op = "sendSms" ->
                        IF BadShape(r.message_data)
                        THEN rejected
                             /\ calls[i].error = "message_data must be an object"
                        ELSE posted
                 [] calls[i].op = "sendEmail" ->
                        IF r.headers.t \in {"array", "string"}
                        THEN rejected
                             /\ calls[i].error = "headers must be an object"
                        ELSE posted
                 [] calls[i].op = "sendPush" -> posted

\* a sendPush whose message_data is an array, posted with it
C32_Witness ==
    \E i \in CallIds :
        /\ ShapeTried(i)
        /\ calls[i].op = "sendPush"
        /\ RequestOf(i).message_data.t = "array"
        /\ calls[i].primary = 1
        /\ calls[i].payload.message_data.t = "array"

\* a call that ended in failure: invalid input, or a primary request failed
Failed(c) == c.error # "" \/ c.primResult = "failed"

\* C33 as stated: whatever the application assigns to the fields of its
\* config object after construction, calls behave as the config was when
\* the client was constructed: failures are thrown, nothing is logged, one
\* call executes at a time and identify is written to both destinations.
C33_ConfigFixedAtConstruction ==
    /\ NumExecuting <= concurrencyLimit(BuiltConfig)
    /\ \A i \in CallIds :
        /\ ( Finished(i) /\ Failed(calls[i]) ) =>
                calls[i].outcome = "rejected"
        /\ calls[i].log = NoLog
        /\ ( calls[i].op = "identify" /\ calls[i].primary = 1 ) =>
                calls[i].secondary = 1

\* C33: the concurrency ceiling and the dual-write switch are resolved at
\* construction and do not follow the config object afterwards; the flags
\* failOnException and debug are read from the config object each time they
\* are used, so a call throws its failure exactly if failOnException is
\* true at the moment it fails.
C33_FlagsReadAtUse ==
    /\ [](/\ NumExecuting <= concurrencyLimit(BuiltConfig)
          /\ \A i \in CallIds :
                ( calls[i].op = "identify" /\ calls[i].primary = 1 ) =>
                    calls[i].secondary = 1)
    /\ [][\A i \in CallIds :
            ( ~Finished(i) /\ calls'[i].pc = "returned" ) =>
                /\ calls'[i].outcome = "rejected"
                        => client.config.failOnException
                /\ ( calls'[i].outcome = "resolved" /\ Failed(calls'[i]) )
                        => ~client.config.failOnException
                /\ calls'[i].log.error > calls[i].log.error
                        => client.config.debug]_vars

\* the client was constructed to throw, the application has since set
\* failOnException to false, and a call with invalid input resolved
C33_Witness ==
    /\ client.config.failOnException # BuiltConfig.failOnException
    /\ client.config.maxConcurrentRequests # BuiltConfig.maxConcurrentRequests
    /\ \E i \in CallIds :
        /\ calls[i].error # ""
        /\ calls[i].outcome = "resolved"

\* C34: sendEmail posts only a message that has a non-empty template id or
\* has body, subject and from all non-empty, and a template id that is ''
\* or null is not part of the payload.
C34_EmailNeedsTemplateOrContent ==
    \A i \in CallIds :
        ( calls[i].op = "sendEmail" /\ calls[i].primary >= 1 ) =>
            LET m == RequestOf(i)
            IN /\ \/ Truthy(m.transactional_message_id)
                  \/ /\ Truthy(m.body)
                     /\ Truthy(m.subject)
                     /\ Truthy(m.from)
               /\ ~Truthy(m.transactional_message_id) =>
                    "transactional_message_id" \notin DOMAIN calls[i].payload

\* the number of invocations of the methods of the logger recorded in log
Invocations(log) == log.debug + log.warn + log.error

C36_SecondaryClientConstruction ==
    /\ client.sendToCustomerIo = Configured
    /\ client.customerIoClient # "null" => Configured
    /\ client.customerIoClient = "null" =>
            \A i \in CallIds :
                /\ calls[i].secondary = 0
                /\ calls[i].pc # "secondary"
                /\ ( /\ calls[i].op \in ProfileOps
                      /\ ~Invalid(i)
                      /\ calls[i].pc # "queued" ) => calls[i].primary = 1

\* dual-write was configured on a client that throws, the construction of
\* the secondary client failed, and a valid identify has settled after its
\* primary request alone
C36_Witness ==
    /\ Configured
    /\ client.config.failOnException
    /\ client.customerIoClient = "null"
    /\ \E i \in CallIds :
        /\ calls[i].op = "identify"
        /\ calls[i].pc = "settled"
        /\ calls[i].primResult = "ok"
        /\ calls[i].secondary = 0

\* two finished calls of the same operation, made with the same arguments,
\* whose secondary call and primary request were answered alike
SameInputs(i, j) ==
    /\ Finished(i) /\ Finished(j)
    /\ calls[i].op = calls[j].op
    /\ calls[i].args = calls[j].args
    /\ calls[i].secResult = calls[j].secResult
    /\ calls[i].transport = calls[j].transport

NoPlus(x) == x.t = "string" /\ Len(x.v) > 0 /\ x.v[1] # "+"

\* C38: a sendSms whose to or from number does not begin with "+" is
\* rejected with the phone-format error and issues no request.
C38_NumberNeedsPlus ==
    \A i \in CallIds :
        ( /\ calls[i].op = "sendSms"
          /\ app.inputs = "phone"
          /\ calls[i].pc # "queued"
          /\ NoPlus(RequestOf(i).to) \/ NoPlus(RequestOf(i).from) ) =>
            /\ calls[i].primary = 0
            /\ calls[i].error =
                "Phone number must be in international format (e.g., +1234567890)"

\* an address that is given and does not match the email pattern
BadAddress(x) == x.t = "string" /\ Len(x.v) > 0 /\ ~emailRegex(x.v)

\* a list with such an address in it, or a single string that is one
BadAmong(x) ==
    IF x.t = "array" THEN \E k \in 1..Len(x.v) : BadAddress(x.v[k])
    ELSE BadAddress(x)

\* C39: a sendEmail whose to, from or reply_to, or one of whose bcc or cc
\* addresses, is given and does not match the email pattern is rejected
\* with 'Invalid email address format' and issues no request, also when bcc
\* or cc is a single string; with good addresses the email is posted, a bcc
\* given as a string being in the payload as it was given.
C39_AddressesValidated ==
    \A i \in CallIds :
        ( /\ calls[i].op = "sendEmail"
          /\ app.inputs = "addresses"
          /\ calls[i].pc # "queued" ) =>
            LET m == RequestOf(i)
            IN IF \/ BadAddress(m.to) \/ BadAddress(m.from)
                  \/ BadAddress(m.reply_to)
                  \/ BadAmong(m.bcc) \/ BadAmong(m.cc)
               THEN /\ calls[i].primary = 0
                    /\ calls[i].error = "Invalid email address format"
               ELSE /\ calls[i].error = ""
                    /\ calls[i].primary = 1
                    /\ m.bcc.t = "string" => calls[i].payload.bcc = m.bcc
====
